---- MODULE Spec2Model ----
(***************************************************************************)
(* Model of src/config.rs of hb ("httpbench"): the command-line            *)
(* resolution Config::from_cmdline and the URL-set construction load_urls. *)
(*                                                                         *)
(* Strings are TLA+ strings; Len, \o, SubSeq, Head and Tail act on them    *)
(* character by character.  Option<T> is a sequence of length at most 1:   *)
(* None is << >> and Some(x) is << x >>.                                   *)
(***************************************************************************)
EXTENDS Integers, Sequences, FiniteSets, TLC

VARIABLES
    url_prefix,   \* load_urls parameter: Option<&str>
    url_file,     \* load_urls parameter: Option<&str>, a path
    args_urls,    \* load_urls parameter: Option<Vec<&str>>
    fs,           \* the file system: path -> Option<content>
    rets,         \* the calls of load_urls so far, oldest first: what each
                  \* loaded, returned and logged with warn!
    argv,         \* the command line given to from_cmdline
    outcome       \* how from_cmdline ended, and the files it opened

vars == << url_prefix, url_file, args_urls, fs, rets, argv, outcome >>

None == << >>
Some(x) == << x >>
IsSome(o) == Len(o) = 1
Unwrap(o) == o[1]

(***************************************************************************)
(* Characters and strings                                                  *)
(***************************************************************************)
Lower == {"a", "b", "c", "d", "e", "f", "g", "h", "i", "j", "k", "l", "m",
          "n", "o", "p", "q", "r", "s", "t", "u", "v", "w", "x", "y", "z"}
Upper == {"A", "B", "C", "D", "E", "F", "G", "H", "I", "J", "K", "L", "M",
          "N", "O", "P", "Q", "R", "S", "T", "U", "V", "W", "X", "Y", "Z"}
Digit == {"0", "1", "2", "3", "4", "5", "6", "7", "8", "9"}

LowerOf == [c \in Upper |->
    CASE c = "A" -> "a" [] c = "B" -> "b" [] c = "C" -> "c" [] c = "D" -> "d"
      [] c = "E" -> "e" [] c = "F" -> "f" [] c = "G" -> "g" [] c = "H" -> "h"
      [] c = "I" -> "i" [] c = "J" -> "j" [] c = "K" -> "k" [] c = "L" -> "l"
      [] c = "M" -> "m" [] c = "N" -> "n" [] c = "O" -> "o" [] c = "P" -> "p"
      [] c = "Q" -> "q" [] c = "R" -> "r" [] c = "S" -> "s" [] c = "T" -> "t"
      [] c = "U" -> "u" [] c = "V" -> "v" [] c = "W" -> "w" [] c = "X" -> "x"
      [] c = "Y" -> "y" [] c = "Z" -> "z"]

UpperOf == [c \in Lower |-> CHOOSE u \in Upper : LowerOf[u] = c]

DigitVal == [c \in Digit |->
    CASE c = "0" -> 0 [] c = "1" -> 1 [] c = "2" -> 2 [] c = "3" -> 3
      [] c = "4" -> 4 [] c = "5" -> 5 [] c = "6" -> 6 [] c = "7" -> 7
      [] c = "8" -> 8 [] c = "9" -> 9]

Char(s, i) == SubSeq(s, i, i)
Chars(s) == {Char(s, i) : i \in 1..Len(s)}
From(s, i) == SubSeq(s, i, Len(s))
Upto(s, i) == SubSeq(s, 1, i)
StartsWith(s, p) == Len(s) >= Len(p) /\ Upto(s, Len(p)) = p
EndsWith(s, p) == Len(s) >= Len(p) /\ From(s, Len(s) - Len(p) + 1) = p

Min(S) == CHOOSE m \in S : \A n \in S : m <= n
Max(S) == CHOOSE m \in S : \A n \in S : m >= n

\* Position of the first character of s that is in cs, Len(s) + 1 if none.
FirstIn(s, cs) ==
    LET P == {i \in 1..Len(s) : Char(s, i) \in cs}
    IN  IF P = {} THEN Len(s) + 1 ELSE Min(P)

\* Position of the first character of s that is not in cs, Len(s) + 1 if none.
FirstNotIn(s, cs) ==
    LET P == {i \in 1..Len(s) : Char(s, i) \notin cs}
    IN  IF P = {} THEN Len(s) + 1 ELSE Min(P)

\* Position of the last character of s that is in cs, 0 if none.
LastIn(s, cs) ==
    LET P == {i \in 1..Len(s) : Char(s, i) \in cs}
    IN  IF P = {} THEN 0 ELSE Max(P)

RECURSIVE MapChars(_, _)
MapChars(f(_), s) == IF s = "" THEN "" ELSE f(Head(s)) \o MapChars(f, Tail(s))

RECURSIVE Without(_, _)
Without(s, cs) ==
    IF s = "" THEN ""
    ELSE (IF Head(s) \in cs THEN "" ELSE Head(s)) \o Without(Tail(s), cs)

to_ascii_lowercase(c) == IF c \in Upper THEN LowerOf[c] ELSE c
to_ascii_uppercase(c) == IF c \in Lower THEN UpperOf[c] ELSE c
to_lowercase(s) == MapChars(to_ascii_lowercase, s)
to_uppercase(s) == MapChars(to_ascii_uppercase, s)

(***************************************************************************)
(* The url crate: Url::parse and Url::join, as load_urls uses them.        *)
(*                                                                         *)
(* A parsed Url is its components; Serialize gives the string that         *)
(* Url::into::<String>() returns.  The model covers the part of the URL    *)
(* syntax that Supported describes: no userinfo, no fragment, no IPv6 or   *)
(* IPv4 host, no percent sign in a host, no dot segment, no "file" scheme. *)
(***************************************************************************)
C0ControlOrSpace == {" ", "\t", "\n", "\r"}
AsciiTabOrNewLine == {"\t", "\n", "\r"}

\* Input::new: strip C0 controls and spaces at both ends, drop tab, LF and CR.
InputOf(s) ==
    LET a == FirstNotIn(s, C0ControlOrSpace)
        P == {i \in 1..Len(s) : Char(s, i) \notin C0ControlOrSpace}
        b == IF P = {} THEN 0 ELSE Max(P)
    IN  Without(SubSeq(s, a, b), AsciiTabOrNewLine)

SpecialNotFile == {"http", "https", "ws", "wss", "ftp"}
IsSpecial(scheme) == scheme \in SpecialNotFile \/ scheme = "file"

\* default_port of the scheme, as the digits Serialize would write.
default_port(scheme) ==
    CASE scheme \in {"http", "ws"} -> Some("80")
      [] scheme \in {"https", "wss"} -> Some("443")
      [] scheme = "ftp" -> Some("21")
      [] OTHER -> None

ParseOk(u) == [ok |-> TRUE, url |-> u, err |-> ""]
ParseErr(e) == [ok |-> FALSE, url |-> None, err |-> e]

Url(scheme, host, port, path, query, cbab) ==
    [scheme |-> scheme, host |-> host, port |-> port, path |-> path,
     query |-> query, cannot_be_a_base |-> cbab]

\* The serialization of a Url (Url::as_str, Url::into::<String>).
Serialize(u) ==
    u.scheme \o ":"
    \o (IF IsSome(u.host)
        THEN "//" \o Unwrap(u.host)
             \o (IF IsSome(u.port) THEN ":" \o Unwrap(u.port) ELSE "")
        ELSE "")
    \o u.path
    \o (IF IsSome(u.query) THEN "?" \o Unwrap(u.query) ELSE "")

\* Parser::parse_scheme: ASCII alpha, then alphanumerics, '+', '-', '.', up
\* to a ':'; the scheme is lowercased.
parse_scheme(input) ==
    IF input = "" \/ Head(input) \notin (Lower \cup Upper)
    THEN [ok |-> FALSE, scheme |-> "", rest |-> input]
    ELSE LET i == FirstNotIn(input, Lower \cup Upper \cup Digit \cup {"+", "-", "."})
         IN  IF i <= Len(input) /\ Char(input, i) = ":"
             THEN [ok |-> TRUE, scheme |-> to_lowercase(Upto(input, i - 1)),
                   rest |-> From(input, i + 1)]
             ELSE [ok |-> FALSE, scheme |-> "", rest |-> input]

\* utf8_percent_encode with the PATH set, and '\' read as '/' in a special URL.
EncPathChar(c) == IF c = " " THEN "%20" ELSE c
EncSpecialPathChar(c) == IF c = "\\" THEN "/" ELSE EncPathChar(c)
\* utf8_percent_encode with the QUERY set.
EncQueryChar(c) == IF c = " " THEN "%20" ELSE c

\* Parser::parse_path on the input up to its '?' or '#'.
parse_path(special, input) ==
    LET e == FirstIn(input, {"?", "#"})
    IN  [path |-> IF special THEN MapChars(EncSpecialPathChar, Upto(input, e - 1))
                  ELSE MapChars(EncPathChar, Upto(input, e - 1)),
         rest |-> From(input, e)]

\* Parser::parse_query_and_fragment: the query after a '?', if any.
parse_query(input) ==
    IF StartsWith(input, "?")
    THEN Some(MapChars(EncQueryChar, SubSeq(input, 2, FirstIn(input, {"#"}) - 1)))
    ELSE None

\* Parser::parse_path_start: a special URL always has a path starting with '/'.
parse_path_start(special, input) ==
    IF special
    THEN LET p == parse_path(TRUE, IF input # "" /\ Head(input) \in {"/", "\\"}
                                   THEN Tail(input) ELSE input)
         IN  [path |-> "/" \o p.path, rest |-> p.rest]
    ELSE IF input = "" \/ Head(input) \in {"?", "#"}
         THEN [path |-> "", rest |-> input]
         ELSE LET p == parse_path(FALSE, input)
              IN  [path |-> (IF Head(input) # "/" THEN "/" ELSE "") \o p.path,
                   rest |-> p.rest]

\* Forbidden host code points (Host::parse, Host::parse_opaque).
ForbiddenHost == {" ", "\t", "\n", "\r", "#", "/", ":", "<", ">", "?", "@",
                  "[", "\\", "]", "^", "|", "%"}

RECURSIVE PortOverflows(_, _)
\* Parser::parse_port: the value is accumulated digit by digit in a u32 and
\* refused once it exceeds u16::MAX.
PortOverflows(digits, acc) ==
    IF digits = "" THEN FALSE
    ELSE LET v == acc * 10 + DigitVal[Head(digits)]
         IN  v > 65535 \/ PortOverflows(Tail(digits), v)

\* The decimal digits of a number, without leading zeros.
Canonical(digits) ==
    LET i == FirstNotIn(digits, {"0"})
    IN  IF i > Len(digits) THEN "0" ELSE From(digits, i)

\* Parser::after_double_slash: host, port, path and query of a URL whose
\* scheme is known.
after_double_slash(scheme, input) ==
    LET special == IsSpecial(scheme)
        hostEnd == FirstIn(input, {":", "/", "?", "#"}
                                  \cup (IF special THEN {"\\"} ELSE {}))
        host_str == Upto(input, hostEnd - 1)
        afterHost == From(input, hostEnd)
        hasColon == StartsWith(afterHost, ":")
        portInput == IF hasColon THEN Tail(afterHost) ELSE ""
        portEnd == FirstNotIn(portInput, Digit)
        digits == Upto(portInput, portEnd - 1)
        portStops == portEnd > Len(portInput)
                     \/ Char(portInput, portEnd) \in {"/", "\\", "?", "#"}
        port == IF digits = "" \/ Some(Canonical(digits)) = default_port(scheme)
                THEN None ELSE Some(Canonical(digits))
        remaining == IF hasColon THEN From(portInput, portEnd) ELSE afterHost
        p == parse_path_start(special, remaining)
    IN  IF special /\ host_str = "" THEN ParseErr("EmptyHost")
        ELSE IF Chars(host_str) \cap ForbiddenHost # {}
        THEN ParseErr("InvalidDomainCharacter")
        ELSE IF hasColon /\ (PortOverflows(digits, 0) \/ ~portStops)
        THEN ParseErr("InvalidPort")
        ELSE ParseOk(Url(scheme,
                         Some(IF special THEN to_lowercase(host_str) ELSE host_str),
                         port, p.path, parse_query(p.rest), FALSE))

\* Parser::parse_non_special: "//" starts an authority, "/" a path, anything
\* else an opaque path (a cannot-be-a-base URL).
parse_non_special(scheme, input) ==
    IF StartsWith(input, "//") THEN after_double_slash(scheme, From(input, 3))
    ELSE IF StartsWith(input, "/")
    THEN LET p == parse_path(FALSE, input)
         IN  ParseOk(Url(scheme, None, None, p.path, parse_query(p.rest), FALSE))
    ELSE LET e == FirstIn(input, {"?", "#"})
         IN  ParseOk(Url(scheme, None, None, Upto(input, e - 1),
                         parse_query(From(input, e)), TRUE))

\* Parser::pop_path: the path without its last segment.
pop_path(path) == Upto(path, LastIn(path, {"/"}))

\* Parser::parse_relative: an input without a scheme, resolved against base.
parse_relative(input, base) ==
    LET special == IsSpecial(base.scheme)
        slashes == FirstNotIn(input, {"/", "\\"}) - 1
    IN  IF input = ""
        THEN ParseOk(base)
        ELSE IF Head(input) = "?"
        THEN ParseOk([base EXCEPT !.query = parse_query(input)])
        ELSE IF Head(input) \in {"/", "\\"}
        THEN IF slashes >= 2
             THEN after_double_slash(base.scheme, From(input, 3))
             ELSE LET p == parse_path(special, Tail(input))
                  IN  ParseOk([base EXCEPT !.path = "/" \o p.path,
                                           !.query = parse_query(p.rest)])
        ELSE LET popped == pop_path(base.path)
                 p == parse_path(special, input)
             IN  ParseOk([base EXCEPT
                     !.path = (IF popped = "" THEN "/" ELSE popped) \o p.path,
                     !.query = parse_query(p.rest)])

\* Parser::parse_with_scheme.
parse_with_scheme(scheme, rest, base) ==
    IF scheme \in SpecialNotFile
    THEN LET slashes == FirstNotIn(rest, {"/", "\\"}) - 1
         IN  IF IsSome(base) /\ slashes < 2 /\ Unwrap(base).scheme = scheme
             THEN parse_relative(rest, Unwrap(base))
             ELSE after_double_slash(scheme, From(rest, slashes + 1))
    ELSE parse_non_special(scheme, rest)

\* Parser::parse_url: Url::parse has no base, Url::join has one.
parse_url(s, base) ==
    LET input == InputOf(s)
        sch == parse_scheme(input)
    IN  IF sch.ok THEN parse_with_scheme(sch.scheme, sch.rest, base)
        ELSE IF IsSome(base)
        THEN IF Unwrap(base).cannot_be_a_base
             THEN ParseErr("RelativeUrlWithCannotBeABaseBase")
             ELSE parse_relative(input, Unwrap(base))
        ELSE ParseErr("RelativeUrlWithoutBase")

UrlParse(s) == parse_url(s, None)
UrlJoin(base, s) == parse_url(s, Some(base))

(***************************************************************************)
(* load_urls                                                               *)
(***************************************************************************)
RECURSIVE lines_skip_empty(_)
\* lines, were the empty lines filtered out.
lines_skip_empty(content) ==
    IF content = "" THEN << >>
    ELSE LET e == FirstIn(content, {"\n"})
             raw == Upto(content, e - 1)
             line == IF e <= Len(content) /\ EndsWith(raw, "\r")
                     THEN Upto(raw, Len(raw) - 1) ELSE raw
         IN  (IF line = "" THEN << >> ELSE << line >>)
             \o lines_skip_empty(From(content, e + 1))

RECURSIVE lines(_)
\* BufRead::lines: the content cut at each "\n"; the "\n", or the "\r\n",
\* that ends a line is not part of it.
lines(content) ==
    IF content = "" THEN << >>
    ELSE LET e == FirstIn(content, {"\n"})
             raw == Upto(content, e - 1)
             line == IF e <= Len(content) /\ EndsWith(raw, "\r")
                     THEN Upto(raw, Len(raw) - 1) ELSE raw
         IN  << line >> \o lines(From(content, e + 1))

\* The warn! record of lines 246 and 248: "URL {} is invalid: {}".
Warning(url, e) == [url |-> url, err |-> e]

\* Ok(_) => {}: nothing required in the OK case.
Kept(url) == [url |-> url, warn |-> None]
\* Err(e) => warn!(...): the candidate stays, a warning is logged.
KeptWithWarning(url, e) == [url |-> url, warn |-> Some(Warning(url, e))]
\* Ok(prefixed) => *url = prefixed.into()
Replaced(prefixed) == [url |-> Serialize(prefixed), warn |-> None]

\* The match on base.join(url), lines 244-247.
match_join(url, joined) ==
    IF joined.ok THEN Replaced(joined.url) ELSE KeptWithWarning(url, joined.err)

\* The match on Url::parse(url), lines 240-249.
match_parse(base, url, parsed) ==
    IF parsed.ok THEN Kept(url)
    ELSE IF parsed.err = "RelativeUrlWithoutBase"
    THEN match_join(url, UrlJoin(base, url))
    ELSE KeptWithWarning(url, parsed.err)

\* match_parse, were a URL that parses rewritten to its serialization.
match_parse_normalizing(base, url, parsed) ==
    IF parsed.ok THEN Replaced(parsed.url)
    ELSE IF parsed.err = "RelativeUrlWithoutBase"
    THEN match_join(url, UrlJoin(base, url))
    ELSE KeptWithWarning(url, parsed.err)

\* match_join, were the prefix prepended as text instead of joined.
match_join_concat(base, url, joined) ==
    IF joined.ok THEN Kept(Serialize(base) \o url)
    ELSE KeptWithWarning(url, joined.err)

\* match_join, were a failed join ignored without a warning.
match_join_silent(url, joined) ==
    IF joined.ok THEN Replaced(joined.url) ELSE Kept(url)

\* resolve_url, were a URL that parses rewritten to its serialization.
resolve_url_normalizing(base, url) == match_parse_normalizing(base, url, UrlParse(url))

\* resolve_url, were the prefix prepended as text instead of joined.
resolve_url_concat(base, url) ==
    IF UrlParse(url).ok THEN Kept(url)
    ELSE IF UrlParse(url).err = "RelativeUrlWithoutBase"
    THEN match_join_concat(base, url, UrlJoin(base, url))
    ELSE KeptWithWarning(url, UrlParse(url).err)

\* resolve_url, were a failed join ignored without a warning.
resolve_url_silent(base, url) ==
    IF UrlParse(url).ok THEN Kept(url)
    ELSE IF UrlParse(url).err = "RelativeUrlWithoutBase"
    THEN match_join_silent(url, UrlJoin(base, url))
    ELSE KeptWithWarning(url, UrlParse(url).err)

\* resolve_url, were the prefix prepended to every candidate, parsed or not.
resolve_url_prepend(base, url) == Kept(Serialize(base) \o url)

\* The body of the loop of load_urls: match Url::parse(url) { ... }.
resolve_url(base, url) == match_parse(base, url, UrlParse(url))

RECURSIVE prefix_loop_retain(_, _, _, _)
\* prefix_loop, were a candidate that cannot be resolved dropped from urls.
prefix_loop_retain(base, urls, i, warns) ==
    IF i > Len(urls) THEN [urls |-> urls, warns |-> warns]
    ELSE LET r == resolve_url(base, urls[i])
         IN  IF IsSome(r.warn)
             THEN prefix_loop_retain(base, SubSeq(urls, 1, i - 1)
                                           \o SubSeq(urls, i + 1, Len(urls)),
                                     i, warns \o r.warn)
             ELSE prefix_loop_retain(base, [urls EXCEPT ![i] = r.url], i + 1, warns)

RECURSIVE prefix_loop(_, _, _, _)
\* One turn of the loop: element i becomes r.url, r.warn is logged, and the
\* loop goes on with element i + 1.
loop_turn(base, urls, i, warns, r) ==
    prefix_loop(base, [urls EXCEPT ![i] = r.url], i + 1, warns \o r.warn)

\* for url in urls.iter_mut() { ... }: urls is rewritten in place, from
\* element i on; warns collects the warnings in the order they are logged.
prefix_loop(base, urls, i, warns) ==
    IF i > Len(urls) THEN [urls |-> urls, warns |-> warns]
    ELSE loop_turn(base, urls, i, warns, resolve_url(base, urls[i]))

\* A call of load_urls: the line it ended at, the candidates it loaded
\* (urls after line 233), the list it returned and the warnings it logged.
LoadPanic(loaded, line) ==
    [kind |-> "panic", line |-> line, loaded |-> loaded, urls |-> << >>,
     warns |-> << >>, err |-> ""]
LoadErr(loaded, e) ==
    [kind |-> "err", line |-> 238, loaded |-> loaded, urls |-> << >>,
     warns |-> << >>, err |-> e]
LoadOk(loaded, urls, warns) ==
    [kind |-> "ok", line |-> 253, loaded |-> loaded, urls |-> urls,
     warns |-> warns, err |-> ""]

\* Ok(urls), after the loop has rewritten urls.
after_loop(loaded, r) == LoadOk(loaded, r.urls, r.warns)

\* let base = Url::parse(url_prefix)?; then the loop.
with_base(urls, base) ==
    IF ~base.ok THEN LoadErr(urls, base.err)
    ELSE after_loop(urls, prefix_loop(base.url, urls, 1, << >>))

\* apply_prefix, were a missing prefix read as the empty string.
apply_prefix_or_default(prefix, urls) ==
    with_base(urls, UrlParse(IF IsSome(prefix) THEN Unwrap(prefix) ELSE ""))

\* Lines 235-253 of load_urls: "Prefix as required".
apply_prefix(prefix, urls) ==
    IF IsSome(prefix) THEN with_base(urls, UrlParse(Unwrap(prefix)))
    ELSE LoadOk(urls, urls, << >>)

\* fn load_urls(url_prefix, url_file, args_urls), reading the file system files.
load_urls(prefix, file, args, files) ==
    IF IsSome(file) /\ ~IsSome(files[Unwrap(file)]) THEN LoadPanic(<< >>, 226)
    ELSE IF ~IsSome(file) /\ ~IsSome(args) THEN LoadPanic(<< >>, 232)
    ELSE apply_prefix(prefix, IF IsSome(file)
                              THEN lines(Unwrap(files[Unwrap(file)]))
                              ELSE Unwrap(args))

(***************************************************************************)
(* clap: the Command that from_cmdline declares (lines 61-148) and the     *)
(* ArgMatches it reads (lines 151-175).                                    *)
(*                                                                         *)
(* The command line is a record: per flag the value given with it (None if *)
(* the flag is absent), and the positional arguments in order.  The order  *)
(* of the flags is not modelled, so a usage error carries the set of the   *)
(* errors clap can report for the line; it reports the first it meets.     *)
(***************************************************************************)
ArgIds == {"concurrency", "requests", "order", "delay", "delaydist", "urlfile",
           "urls", "urlprefix", "reportslow", "http_method", "payloads"}

\* a <= b, for two strings of canonical decimal digits.
DigitsLeq(a, b) ==
    \/ Len(a) < Len(b)
    \/ /\ Len(a) = Len(b)
       /\ \/ a = b
          \/ \E i \in 1..Len(a) :
                /\ Upto(a, i - 1) = Upto(b, i - 1)
                /\ DigitVal[Char(a, i)] < DigitVal[Char(b, i)]

\* value_parser!(u16), value_parser!(u32), value_parser!(usize): an optional
\* '+', then decimal digits, at most the greatest value of the type.
IsUnsigned(v, max) ==
    LET d == IF StartsWith(v, "+") THEN Tail(v) ELSE v
    IN  d # "" /\ Chars(d) \subseteq Digit /\ DigitsLeq(Canonical(d), max)

\* The number an accepted value denotes, as canonical digits.
UnsignedOf(v) == Canonical(IF StartsWith(v, "+") THEN Tail(v) ELSE v)

\* value_parser!(f64) on decimal notation: an optional sign, digits with at
\* most one '.', at least one digit.  (Exponents, "inf" and "NaN" also parse;
\* the command lines of the model hold none.)
IsF64(v) ==
    LET d == IF v # "" /\ Head(v) \in {"+", "-"} THEN Tail(v) ELSE v
    IN  /\ Chars(d) \subseteq Digit \cup {"."}
        /\ Chars(d) \cap Digit # {}
        /\ Cardinality({i \in 1..Len(d) : Char(d, i) = "."}) <= 1

\* PossibleValuesParser::new([...]): the value must be one of the strings;
\* no Arg sets ignore_case, so the comparison is exact.
PossibleValues(id) ==
    CASE id = "order" -> {"r", "s"}
      [] id = "delaydist" -> {"c", "u", "ne"}
      [] id = "http_method" -> {"GET", "POST", "PUT"}

\* Does the value parser of the Arg accept the value?
ValueParses(id, v) ==
    CASE id = "concurrency" -> IsUnsigned(v, "65535")
      [] id = "requests" -> IsUnsigned(v, "18446744073709551615")
      [] id = "delay" -> IsUnsigned(v, "4294967295")
      [] id = "reportslow" -> IsF64(v)
      [] id \in {"order", "delaydist", "http_method"} -> v \in PossibleValues(id)
      [] OTHER -> TRUE

\* The type of the values clap stores for an Arg: that of its value_parser,
\* String for PossibleValuesParser and for an Arg that names none.
StoredType(id) ==
    CASE id = "concurrency" -> "u16"
      [] id = "requests" -> "usize"
      [] id = "delay" -> "u32"
      [] id = "reportslow" -> "f64"
      [] OTHER -> "String"

\* default_value of the Arg, None if it has none.
DefaultValue(id) ==
    CASE id = "concurrency" -> Some("10")
      [] id = "requests" -> Some("100")
      [] id = "order" -> Some("r")
      [] id = "delay" -> Some("0")
      [] id = "delaydist" -> Some("c")
      [] id = "http_method" -> Some("GET")
      [] OTHER -> None

\* The values given on the command line for an Arg.
Given(a, id) == a[id]

\* Conflicts, were conflicts_with("urls") not declared.
Conflicts_undeclared(a) == FALSE

\* urlfile: .conflicts_with("urls")
Conflicts(a) == Given(a, "urlfile") # << >> /\ Given(a, "urls") # << >>
\* urlfile: .required_unless_present("urls")
MissingRequired(a) == Given(a, "urlfile") = << >> /\ Given(a, "urls") = << >>

\* The errors clap meets while it reads the line: a value its parser
\* refuses, a second positional ("urls" is the positional of index 1 and
\* takes one value).
ParseErrors(a) ==
    {"InvalidValue:" \o id : id \in
        {x \in ArgIds \ {"urls"} : Given(a, x) # << >> /\ ~ValueParses(x, Given(a, x)[1])}}
    \cup (IF Len(a.urls) > 1 THEN {"UnknownArgument"} ELSE {})

Rejected(errors) == [ok |-> FALSE, errors |-> errors, matches |-> << >>]

\* The ArgMatches of an accepted line: per Arg the values given, else its
\* default value, else nothing.
Matches(a) ==
    [ok |-> TRUE, errors |-> {},
     matches |-> [id \in ArgIds |->
         IF Given(a, id) # << >> THEN Given(a, id) ELSE DefaultValue(id)]]

\* The validation after the line is read: conflicts, then requirements.
validate(a, errors) ==
    IF errors # {} THEN Rejected(errors)
    ELSE IF Conflicts(a) THEN Rejected({"ArgumentConflict:urlfile"})
    ELSE IF MissingRequired(a) THEN Rejected({"MissingRequiredArgument:urlfile"})
    ELSE Matches(a)

\* Command::get_matches: the values are parsed as the line is read, then the
\* conflicts and the requirements are validated; an error ends the process
\* with a usage message.
get_matches(a) == validate(a, ParseErrors(a))

\* ArgMatches::get_many::<T>(id): None if the Arg has no value; a panic if
\* the Arg has values and T is not the type they are stored with ("Mismatch
\* between definition and access").
get_many(m, id, T) ==
    IF m[id] = << >> THEN [panic |-> FALSE, val |-> None]
    ELSE IF StoredType(id) # T THEN [panic |-> TRUE, val |-> None]
    ELSE [panic |-> FALSE, val |-> Some(m[id])]

\* ArgMatches::get_one::<T>(id): the first value of get_many.
first_value(r) == IF IsSome(r.val) THEN [r EXCEPT !.val = Some(Unwrap(r.val)[1])] ELSE r
get_one(m, id, T) == first_value(get_many(m, id, T))

(***************************************************************************)
(* Config::from_cmdline                                                    *)
(***************************************************************************)
\* impl FromStr for HttpMethod
HttpMethod_from_str(str) ==
    LET upper_case == to_uppercase(str)
    IN  CASE upper_case = "GET" -> Some("Get")
          [] upper_case = "POST" -> Some("Post")
          [] upper_case = "PUT" -> Some("Put")
          [] OTHER -> None

\* clap prints the usage error and exits: nothing of from_cmdline's body runs.
Usage(errors) ==
    [kind |-> "usage", line |-> 148, errors |-> errors, opened |-> << >>,
     plan |-> None]
\* A panic of the line given (unwrap, expect, panic!, assert! or clap's
\* mismatch), after the files of opened were opened.
Panic(line, opened) ==
    [kind |-> "panic", line |-> line, errors |-> {}, opened |-> opened,
     plan |-> None]
\* return Err(e): the ? of line 154.
Failed(line, opened) ==
    [kind |-> "err", line |-> line, errors |-> {}, opened |-> opened,
     plan |-> None]
\* Ok((config, urls, payloads))
Returned(opened, config, urls, payloads) ==
    [kind |-> "ok", line |-> 213, errors |-> {}, opened |-> opened,
     plan |-> Some([config |-> config, urls |-> urls, payloads |-> payloads])]

\* Lines 190-213: the assert! on the payloads and the result.
check_payloads(opened, config, urls, payloads) ==
    IF config.http_method \in {"Post", "Put"} /\ payloads = << >>
    THEN Panic(192, opened)
    ELSE Returned(opened, config, urls, payloads)

\* Lines 175-188: the payloads, pf being matches.get_one::<&str>("payloads").
load_payloads(files, opened, config, urls, pf) ==
    IF pf.panic THEN Panic(175, opened)
    ELSE IF ~IsSome(pf.val) THEN check_payloads(opened, config, urls, << >>)
    ELSE IF ~IsSome(files[Unwrap(pf.val)]) THEN Panic(184, opened \o pf.val)
    ELSE check_payloads(opened \o pf.val, config, urls,
                        lines(Unwrap(files[Unwrap(pf.val)])))

\* The Config of lines 201-209.
Config(c, n, o, t, d, s, h) ==
    [concurrency |-> UnsignedOf(c),
     requests |-> UnsignedOf(n),
     order |-> IF o = "s" THEN "Sequential" ELSE "Random",
     delay_ms |-> UnsignedOf(t),
     delay_distrib |-> CASE d = "u" -> "Uniform"
                         [] d = "ne" -> "NegativeExponential"
                         [] OTHER -> "Constant",
     slow_percentile |-> s,
     http_method |-> h]

\* Line 172: HttpMethod::from_str(..).expect("Unsupported http method").
expect_method(m, files, opened, urls, c, n, o, t, d, s, h) ==
    IF ~IsSome(h) THEN Panic(173, opened)
    ELSE load_payloads(files, opened, Config(c, n, o, t, d, s, Unwrap(h)), urls,
                       get_one(m, "payloads", "&str"))

\* Lines 156-173: the scalar parameters, each the get_one of its line.
unwrap_scalars(m, files, opened, urls, c, n, o, t, d, s, h) ==
    IF c.panic \/ ~IsSome(c.val) THEN Panic(158, opened)
    ELSE IF n.panic \/ ~IsSome(n.val) THEN Panic(159, opened)
    ELSE IF o.panic \/ ~IsSome(o.val) THEN Panic(160, opened)
    ELSE IF t.panic \/ ~IsSome(t.val) THEN Panic(164, opened)
    ELSE IF d.panic \/ ~IsSome(d.val) THEN Panic(165, opened)
    ELSE IF s.panic \/ ~IsSome(s.val) THEN Panic(170, opened)
    ELSE IF h.panic \/ ~IsSome(h.val) THEN Panic(172, opened)
    ELSE expect_method(m, files, opened, urls, Unwrap(c.val), Unwrap(n.val),
                       Unwrap(o.val), Unwrap(t.val), Unwrap(d.val), Unwrap(s.val),
                       HttpMethod_from_str(Unwrap(h.val)))

\* Line 154: let urls = load_urls(url_prefix, url_file, args_urls)?; then the
\* scalar parameters.
with_urls(m, files, opened, urls) ==
    IF urls.kind = "panic" THEN Panic(urls.line, opened)
    ELSE IF urls.kind = "err" THEN Failed(154, opened)
    ELSE unwrap_scalars(m, files, opened, urls.urls,
                        get_one(m, "concurrency", "u16"),
                        get_one(m, "requests", "usize"),
                        get_one(m, "order", "&str"),
                        get_one(m, "delay", "u32"),
                        get_one(m, "delaydist", "&str"),
                        get_one(m, "reportslow", "Option<f64>"),
                        get_one(m, "http_method", "&str"))

\* Lines 150-154: "Extract the URLs".
extract_urls(m, files, prefix, file, args) ==
    IF prefix.panic THEN Panic(151, << >>)
    ELSE IF file.panic THEN Panic(152, << >>)
    ELSE IF args.panic THEN Panic(153, << >>)
    ELSE with_urls(m, files, file.val,
                   load_urls(prefix.val, file.val, args.val, files))

\* The body of from_cmdline once get_matches has answered.
with_matches(gm, files) ==
    IF ~gm.ok THEN Usage(gm.errors)
    ELSE extract_urls(gm.matches, files,
                      get_one(gm.matches, "urlprefix", "&str"),
                      get_one(gm.matches, "urlfile", "&str"),
                      get_many(gm.matches, "urls", "&str"))

\* pub(crate) fn from_cmdline(), on the command line a and the file system files.
from_cmdline(a, files) == with_matches(get_matches(a), files)

(***************************************************************************)
(* The inputs of the model                                                 *)
(***************************************************************************)
MaxUrls == 2      \* inline URLs per call
MaxLines == 2     \* line chunks per URL file
MaxCalls == 2     \* calls of load_urls in a row

\* Candidate URLs: absolute (normalised or not, special or not, with the
\* authority of the prefixes or another), relative (path, absolute path,
\* empty, scheme-relative, with a character to percent-encode, with a join
\* that fails) and malformed (no host, a space in the host, a port above
\* u16::MAX).
Candidates ==
    {"http://localhost:8070/abc123?def=456", "WS://G:80", "x:a",
     "abc123?def=456", "/abc123?def=456", "", "a b", "//g/a",
     "//g:x",
     "ws://", "ws://h g/", "ws://h:65536"}

\* Prefixes: none, special bases (the one of tests::url_prefix, one with a
\* path and a query, one not in normal form), a cannot-be-a-base URL, and a
\* string that is no absolute URL.
Prefixes ==
    {None, Some("http://localhost:8070/"), Some("ws://h/d/e?q=1"),
     Some("WS://H:80"), Some("x:a"), Some("h")}

\* Texts of the lines of a URL file and the ways a line ends.
LineTexts == {"", "/a", "ws://", "a\r"}
LineEnds == {"\n", "\r\n", ""}

RECURSIVE SeqsUpTo(_, _)
\* The sequences of at most n elements of S.
SeqsUpTo(S, n) ==
    IF n = 0 THEN {<< >>}
    ELSE LET shorter == SeqsUpTo(S, n - 1)
         IN  shorter \cup {Append(q, x) : q \in shorter, x \in S}

RECURSIVE Concat(_)
Concat(q) == IF q = << >> THEN "" ELSE Head(q) \o Concat(Tail(q))

FileContents ==
    {Concat(q) : q \in SeqsUpTo({t \o e : t \in LineTexts, e \in LineEnds}, MaxLines)}

UrlFile == "urls.txt"
Paths == {"urls.txt", "payloads.txt", "empty.txt", "missing.txt"}

\* The file system from_cmdline runs on: a URL file, a payload file, an
\* empty file and a path that cannot be opened.
CmdFs ==
    [p \in Paths |->
        CASE p = "urls.txt" -> Some("/a?d=4\nws://h/a\n")
          [] p = "payloads.txt" -> Some("{}\n{\"k\": 1}\n")
          [] p = "empty.txt" -> Some("")
          [] OTHER -> None]

NoArgv == << >>
NotRun == [kind |-> "not_run"]

(***************************************************************************)
(* load_urls called on its own, as tests::url_prefix calls it              *)
(***************************************************************************)
Init ==
    /\ argv = NoArgv
    /\ outcome = NotRun
    /\ rets = << >>
    /\ url_prefix \in Prefixes
    /\ \/ /\ url_file = Some(UrlFile)
          /\ args_urls = None
          /\ \E c \in {None} \cup {Some(t) : t \in FileContents} :
                fs = [CmdFs EXCEPT ![UrlFile] = c]
       \/ /\ url_file = None
          /\ args_urls \in {None} \cup {Some(q) : q \in SeqsUpTo(Candidates, MaxUrls)}
          /\ fs = CmdFs

\* let loaded = load_urls(url_prefix, url_file, args_urls)
Load ==
    /\ rets = << >>
    /\ rets' = << load_urls(url_prefix, url_file, args_urls, fs) >>
    /\ UNCHANGED << url_prefix, url_file, args_urls, fs, argv, outcome >>

\* load_urls(url_prefix, None, Some(loaded)): the list a call returned is
\* resolved again against the same prefix.
ResolveAgain ==
    /\ rets # << >>
    /\ Len(rets) < MaxCalls
    /\ rets[Len(rets)].kind = "ok"
    /\ rets' = Append(rets, load_urls(url_prefix, None, Some(rets[Len(rets)].urls), fs))
    /\ UNCHANGED << url_prefix, url_file, args_urls, fs, argv, outcome >>

Next == Load \/ ResolveAgain

Spec == Init /\ [][Next]_vars

(***************************************************************************)
(* from_cmdline run on a command line                                      *)
(***************************************************************************)
MaxArgs == 2      \* positional arguments on the command line

Opt(S) == {None} \cup {Some(x) : x \in S}

\* The command lines: each flag absent, or given with a value its parser
\* accepts or one it refuses; -d only together with -t.
CommandLines ==
    {a \in [concurrency : Opt({"4", "x"}),
            requests : Opt({"5"}),
            order : Opt({"s", "x"}),
            delay : Opt({"9"}),
            delaydist : Opt({"u"}),
            urlfile : Opt({"urls.txt", "missing.txt"}),
            urls : SeqsUpTo({"/abc123?def=456"}, MaxArgs),
            urlprefix : Opt({"http://localhost:8070/"}),
            reportslow : Opt({"0.9", "x"}),
            http_method : Opt({"GET", "get", "POST", "Post", "PUT", "put", "DELETE"}),
            payloads : Opt({"payloads.txt", "empty.txt", "missing.txt"})] :
        a.delaydist # None => a.delay # None}

InitCmd ==
    /\ argv \in CommandLines
    /\ fs = CmdFs
    /\ outcome = NotRun
    /\ url_prefix = None
    /\ url_file = None
    /\ args_urls = None
    /\ rets = << >>

\* let (config, urls, payloads) = Config::from_cmdline()
FromCmdline ==
    /\ outcome = NotRun
    /\ outcome' = from_cmdline(argv, fs)
    /\ UNCHANGED << url_prefix, url_file, args_urls, fs, rets, argv >>

NextCmd == FromCmdline

SpecCmd == InitCmd /\ [][NextCmd]_vars

(***************************************************************************)
(* Properties of load_urls (checked under Spec)                            *)
(*                                                                         *)
(* They are stated of the last call made: every call is the last one in    *)
(* the state that follows it.                                              *)
(***************************************************************************)
Called == rets # << >>
Last == rets[Len(rets)]
\* The prefix, parsed as line 238 parses it.
Base == UrlParse(Unwrap(url_prefix))
\* The last call went through the prefixing loop and returned a list.
Resolved == Called /\ IsSome(url_prefix) /\ Last.kind = "ok"
\* The prefix is an absolute URL with an authority.
HasAuthority(b) == b.ok /\ IsSome(b.url.host)
\* Url::parse(u) fails with RelativeUrlWithoutBase.
IsRelative(u) ==
    LET p == UrlParse(u) IN ~p.ok /\ p.err = "RelativeUrlWithoutBase"
\* What becomes of candidate u with the base b: "absolute" if it parses,
\* "joined" if it is relative and its join with b succeeds, "unjoinable" if
\* it is relative and the join fails, "unparsable" otherwise.
Class(b, u) ==
    LET p == UrlParse(u)
    IN  IF p.ok THEN "absolute"
        ELSE IF p.err # "RelativeUrlWithoutBase" THEN "unparsable"
        ELSE IF UrlJoin(b, u).ok THEN "joined" ELSE "unjoinable"
Malformed(b, u) == Class(b, u) \in {"unparsable", "unjoinable"}
\* The join of b and u, as a string.
Joined(b, u) == Serialize(UrlJoin(b, u).url)
Occurrences(q, x) == Cardinality({i \in 1..Len(q) : q[i] = x})
WarningsFor(r, u) == Cardinality({i \in 1..Len(r.warns) : r.warns[i].url = u})
\* The first call read the URL file.
FromFile == IsSome(url_file) /\ IsSome(fs[UrlFile])
\* The first call took the inline URLs.
FromArgs == ~IsSome(url_file) /\ IsSome(args_urls)

\* Every string given to Url::parse or Url::join is in the part of the URL
\* syntax that the model of the url crate covers.
SupportedChars ==
    Lower \cup Upper \cup Digit \cup {":", "/", "?", "=", " ", "\r", "\n", "%"}
Supported(u) ==
    LET input == InputOf(u)
        sch == parse_scheme(input)
        rest == IF sch.ok THEN sch.rest ELSE input
        slashes == FirstNotIn(rest, {"/"}) - 1
        auth == From(rest, slashes + 1)
        host == Upto(auth, FirstIn(auth, {":", "/", "?"}) - 1)
    IN  /\ Chars(u) \subseteq SupportedChars
        /\ ~(sch.ok /\ sch.scheme = "file")
        /\ ~sch.ok => slashes <= 2
        /\ (slashes >= 2 \/ (sch.ok /\ IsSpecial(sch.scheme)))
               => Chars(host) \cap (Digit \cup {"%"}) = {}
InputsSupported ==
    /\ IsSome(url_prefix) => Supported(Unwrap(url_prefix))
    /\ Called => \A i \in 1..Len(Last.loaded) : Supported(Last.loaded[i])

\* C1, as stated: with a prefix supplied, whatever the prefix, every
\* candidate that parses as an absolute URL is in the resolved list,
\* unchanged, at its position.
C1_AnyPrefix ==
    (Called /\ IsSome(url_prefix) /\ Last.kind # "panic") =>
        \A i \in 1..Len(Last.loaded) :
            UrlParse(Last.loaded[i]).ok =>
                /\ Last.kind = "ok"
                /\ Len(Last.urls) >= i
                /\ Last.urls[i] = Last.loaded[i]

\* C1, amended: with a prefix that Url::parse accepts, a list is returned
\* and every candidate that parses as an absolute URL is in it, unchanged,
\* at its position, whatever its authority; with a prefix that Url::parse
\* refuses, load_urls returns that error and no list.
C1_AbsoluteUnchanged ==
    (Called /\ IsSome(url_prefix) /\ Last.kind # "panic") =>
        LET b == Base
        IN  IF b.ok
            THEN /\ Last.kind = "ok"
                 /\ Len(Last.urls) = Len(Last.loaded)
                 /\ \A i \in 1..Len(Last.loaded) :
                        UrlParse(Last.loaded[i]).ok => Last.urls[i] = Last.loaded[i]
            ELSE /\ Last.kind = "err"
                 /\ Last.err = b.err
                 /\ Last.urls = << >>

\* An absolute candidate that is not in normal form and whose authority is
\* not the prefix's went through the loop and is in the result as it was.
C1_Witness ==
    /\ Resolved
    /\ Len(rets) = 1
    /\ IsSome(Base.url.host)
    /\ \E i \in 1..Len(Last.loaded) :
          LET u == UrlParse(Last.loaded[i])
          IN  /\ u.ok
              /\ IsSome(u.url.host)
              /\ u.url.host # Base.url.host
              /\ Serialize(u.url) # Last.loaded[i]
              /\ Last.urls[i] = Last.loaded[i]

\* The example of tests::url_prefix.
TestPrefix == "http://localhost:8070/"
TestExpected == "http://localhost:8070/abc123?def=456"
ExampleHolds ==
    url_prefix = Some(TestPrefix) =>
        \A i \in 1..Len(Last.loaded) :
            Last.loaded[i] \in {"abc123?def=456", "/abc123?def=456", TestExpected} =>
                Last.urls[i] = TestExpected

\* C2, as stated: with a valid absolute prefix, every candidate that is a
\* relative reference is replaced by the join of the prefix and it.
C2_EveryRelativeJoined ==
    (Resolved /\ HasAuthority(Base)) =>
        /\ ExampleHolds
        /\ \A i \in 1..Len(Last.loaded) :
              IsRelative(Last.loaded[i]) =>
                  /\ UrlJoin(Base.url, Last.loaded[i]).ok
                  /\ Last.urls[i] = Joined(Base.url, Last.loaded[i])

\* C2, amended: with a valid absolute prefix, every candidate that is a
\* relative reference and whose join with the prefix succeeds is replaced by
\* that join (so in the example of tests::url_prefix); one whose join fails
\* stays as it was.
C2_RelativeJoined ==
    (Resolved /\ HasAuthority(Base)) =>
        LET b == Base.url
        IN  /\ ExampleHolds
            /\ \A i \in 1..Len(Last.loaded) :
                  LET c == Class(b, Last.loaded[i])
                  IN  /\ c = "joined" => Last.urls[i] = Joined(b, Last.loaded[i])
                      /\ c = "unjoinable" => Last.urls[i] = Last.loaded[i]

\* A relative candidate of the example was resolved against its prefix, next
\* to a relative candidate whose join fails.
C2_Witness ==
    /\ Resolved
    /\ Len(rets) = 1
    /\ url_prefix = Some(TestPrefix)
    /\ \E i, j \in 1..Len(Last.loaded) :
          /\ Last.loaded[i] = "/abc123?def=456"
          /\ Last.urls[i] = TestExpected
          /\ Class(Base.url, Last.loaded[j]) = "unjoinable"

\* C3: in a resolution, a candidate whose parse fails for another reason
\* than "relative URL without base", or whose join fails, stays in the list
\* unchanged at its position, is warned about exactly once per occurrence,
\* and the candidates after it are still resolved.
C3_MalformedKept ==
    Resolved =>
        LET b == Base.url
            class == [i \in 1..Len(Last.loaded) |-> Class(b, Last.loaded[i])]
            bad == {i \in 1..Len(Last.loaded) : class[i] \in {"unparsable", "unjoinable"}}
        IN  \A i \in bad :
                /\ Len(Last.urls) = Len(Last.loaded)
                /\ Last.urls[i] = Last.loaded[i]
                /\ WarningsFor(Last, Last.loaded[i])
                       = Occurrences(Last.loaded, Last.loaded[i])
                /\ \A j \in (i + 1)..Len(Last.loaded) :
                      \/ j \in bad /\ Last.urls[j] = Last.loaded[j]
                      \/ j \notin bad /\ UrlParse(Last.urls[j]).ok

\* A candidate whose parse fails, then one whose join fails, both kept and
\* each warned about.
C3_Witness ==
    /\ Resolved
    /\ Len(rets) = 1
    /\ Len(Last.loaded) = 2
    /\ Class(Base.url, Last.loaded[1]) = "unparsable"
    /\ Class(Base.url, Last.loaded[2]) = "unjoinable"
    /\ Last.urls = Last.loaded
    /\ Len(Last.warns) = 2

\* C6: resolving a resolved list again against the same prefix succeeds and
\* returns the same list.
C6_Idempotent ==
    (Len(rets) > 1 /\ rets[Len(rets) - 1].kind = "ok") =>
        /\ Last.loaded = rets[Len(rets) - 1].urls
        /\ Last.kind = "ok"
        /\ Last.urls = rets[Len(rets) - 1].urls

\* A list in which the first pass joined a candidate and kept another with a
\* warning was resolved a second time.
C6_Witness ==
    /\ Len(rets) = 2
    /\ IsSome(url_prefix)
    /\ rets[1].warns # << >>
    /\ \E i \in 1..Len(rets[1].loaded) :
          /\ IsRelative(rets[1].loaded[i])
          /\ rets[1].urls[i] # rets[1].loaded[i]

\* C7: without a prefix, load_urls returns the candidates it loaded as they
\* are, in their order, and logs no warning.
C7_NoPrefixUnchanged ==
    (Called /\ ~IsSome(url_prefix) /\ Last.kind # "panic") =>
        /\ Last.kind = "ok"
        /\ Last.urls = Last.loaded
        /\ Last.warns = << >>
        /\ (Len(rets) = 1 /\ FromArgs) => Last.urls = Unwrap(args_urls)

\* Without a prefix, a relative and a malformed candidate were returned.
C7_Witness ==
    /\ Called
    /\ Len(rets) = 1
    /\ ~IsSome(url_prefix)
    /\ Last.kind = "ok"
    /\ \E i, j \in 1..Len(Last.urls) :
          /\ IsRelative(Last.urls[i])
          /\ ~UrlParse(Last.urls[j]).ok
          /\ ~IsRelative(Last.urls[j])

\* The lines of a text, by the positions of its line feeds: line k runs from
\* after line feed k - 1 to before line feed k, without the carriage return
\* that may precede that line feed; the text after the last line feed, if
\* any, is the last line.
LinesOf(c) ==
    LET N == {i \in 1..Len(c) : Char(c, i) = "\n"}
        n == Cardinality(N)
        nth(k) == CHOOSE i \in N : Cardinality({j \in N : j < i}) = k - 1
        start(k) == IF k = 1 THEN 1 ELSE nth(k - 1) + 1
        count == n + (IF c # "" /\ ~EndsWith(c, "\n") THEN 1 ELSE 0)
        line(k) ==
            IF k > n THEN From(c, start(k))
            ELSE IF nth(k) > start(k) /\ Char(c, nth(k) - 1) = "\r"
            THEN SubSeq(c, start(k), nth(k) - 2)
            ELSE SubSeq(c, start(k), nth(k) - 1)
    IN  [k \in 1..count |-> line(k)]

NonEmpty(l) == l # ""

\* C8, as stated: the candidates loaded from a file are its non-empty lines,
\* in file order, without their line ends; the inline URLs are taken verbatim
\* in argument order.
C8_NonEmptyLines ==
    (Len(rets) = 1 /\ Last.kind # "panic") =>
        /\ FromFile => Last.loaded = SelectSeq(LinesOf(Unwrap(fs[UrlFile])), NonEmpty)
        /\ FromArgs => Last.loaded = Unwrap(args_urls)

\* C8, amended: the candidates loaded from a file are all its lines, the
\* empty ones too (an empty line is the candidate ""), in file order,
\* without their line ends; the inline URLs are taken verbatim in argument
\* order.
C8_AllLines ==
    (Len(rets) = 1 /\ Last.kind # "panic") =>
        /\ FromFile =>
              LET expected == LinesOf(Unwrap(fs[UrlFile]))
              IN  /\ Len(Last.loaded) = Len(expected)
                  /\ \A i \in 1..Len(expected) : Last.loaded[i] = expected[i]
        /\ FromArgs => Last.loaded = Unwrap(args_urls)

\* A file with an empty line before a line that is not empty was loaded.
C8_Witness ==
    /\ Len(rets) = 1
    /\ FromFile
    /\ Last.kind = "ok"
    /\ Len(Last.loaded) = 2
    /\ Last.loaded[1] = ""
    /\ Last.loaded[2] # ""

\* C10: a resolution returns a list as long as the one loaded, whose element
\* i is the outcome for candidate i and the prefix: the candidate itself
\* without a warning if it parses, its join with the prefix without a
\* warning if it is relative and the join succeeds, the candidate itself
\* with a warning otherwise; equal candidates have equal outcomes.
C10_PointwiseMap ==
    Resolved =>
        LET b == Base.url
            n == Len(Last.loaded)
            class == [i \in 1..n |-> Class(b, Last.loaded[i])]
            bad == {i \in 1..n : class[i] \in {"unparsable", "unjoinable"}}
        IN  /\ Len(Last.urls) = n
            /\ Len(Last.warns) = Cardinality(bad)
            /\ \A i \in 1..n :
                  /\ Last.urls[i] = IF class[i] = "joined"
                                    THEN Joined(b, Last.loaded[i])
                                    ELSE Last.loaded[i]
                  /\ (WarningsFor(Last, Last.loaded[i]) > 0) = (i \in bad)
            /\ \A i, j \in 1..n :
                  Last.loaded[i] = Last.loaded[j] => Last.urls[i] = Last.urls[j]

\* A candidate kept with a warning, then a candidate replaced by its join.
C10_Witness ==
    /\ Resolved
    /\ Len(rets) = 1
    /\ Len(Last.loaded) = 2
    /\ Malformed(Base.url, Last.loaded[1])
    /\ Class(Base.url, Last.loaded[2]) = "joined"
    /\ Last.urls[1] = Last.loaded[1]
    /\ Last.urls[2] # Last.loaded[2]
    /\ Len(Last.warns) = 1

(***************************************************************************)
(* Properties of from_cmdline (checked under SpecCmd)                      *)
(***************************************************************************)
Ran == outcome.kind # "not_run"
HasUrlFile == IsSome(argv.urlfile)
HasInlineUrls == argv.urls # << >>
UrlSourceErrors == {"ArgumentConflict:urlfile", "MissingRequiredArgument:urlfile"}

\* C5: a command line with both a URL file and inline URLs, or with neither,
\* ends in a usage error of get_matches, before any file is opened and
\* without a plan; a command line with exactly one of them is not refused
\* for its URL source.
C5_UrlSourceExclusive ==
    Ran =>
        IF HasUrlFile = HasInlineUrls
        THEN /\ outcome.kind = "usage"
             /\ outcome.line = 148
             /\ outcome.opened = << >>
             /\ outcome.plan = None
        ELSE outcome.errors \cap UrlSourceErrors = {}

\* A command line that is well formed but for naming both a URL file and an
\* inline URL was refused for that.
C5_Witness ==
    /\ Ran
    /\ HasUrlFile
    /\ HasInlineUrls
    /\ outcome.kind = "usage"
    /\ outcome.errors = {"ArgumentConflict:urlfile"}

\* The method a command line asks for, resolved as HttpMethod::from_str does.
MethodAsked ==
    HttpMethod_from_str(IF IsSome(argv.http_method) THEN Unwrap(argv.http_method)
                        ELSE "GET")
\* The lines of the payload file the command line names, if it can be read.
PayloadsAsked ==
    IF IsSome(argv.payloads) /\ IsSome(fs[Unwrap(argv.payloads)])
    THEN LinesOf(Unwrap(fs[Unwrap(argv.payloads)])) ELSE << >>
\* The files the command line names can be read and its prefix is a URL.
InputsLoadable ==
    /\ IsSome(argv.payloads) => IsSome(fs[Unwrap(argv.payloads)])
    /\ IsSome(argv.urlfile) => IsSome(fs[Unwrap(argv.urlfile)])
    /\ IsSome(argv.urlprefix) => UrlParse(Unwrap(argv.urlprefix)).ok

\* C4: on a command line that get_matches accepts and whose method is Post
\* or Put, from_cmdline fails without a plan if the payload list is empty,
\* and returns the plan if the payload list is not empty (the inputs being
\* loadable); a returned plan with Post or Put has payloads.
C4_PayloadPresence ==
    (Ran /\ outcome.kind # "usage" /\ MethodAsked \in {Some("Post"), Some("Put")}) =>
        /\ Len(PayloadsAsked) = 0 =>
              outcome.kind \in {"panic", "err"} /\ outcome.plan = None
        /\ (Len(PayloadsAsked) > 0 /\ InputsLoadable) =>
              /\ outcome.kind = "ok"
              /\ IsSome(outcome.plan)
              /\ Unwrap(outcome.plan).payloads # << >>

\* C9: every upper/lower-case variant of GET, POST and PUT given with -m is
\* accepted and resolves to Get, Post or Put (Get when -m is absent); any
\* other string is a usage error of get_matches, before any file is opened.
C9_MethodCaseInsensitive ==
    Ran =>
        IF IsSome(MethodAsked)
        THEN /\ "InvalidValue:http_method" \notin outcome.errors
             /\ outcome.kind = "ok" =>
                    Unwrap(outcome.plan).config.http_method = Unwrap(MethodAsked)
        ELSE /\ outcome.kind = "usage"
             /\ "InvalidValue:http_method" \in outcome.errors
             /\ outcome.opened = << >>

====
